---- MODULE Spec2Model ----
(***************************************************************************)
(* x-influx: the background writer (src/client.rs), the legacy driver      *)
(* (src/main.rs) and the mappers (src/mapper/csv.rs, interactive.rs).      *)
(*                                                                         *)
(* Strings are sequences of one-character strings, so that splitting a     *)
(* line at the delimiter is computed and not assumed.  Option<T> is a      *)
(* record with a `some` flag.  An i64 is a sign and a magnitude of three   *)
(* digits in base 10^9; an overflowing multiplication panics (overflow     *)
(* checks on, the debug build) or wraps (the release build).  Outside      *)
(* NanosSpec the worker thread is assumed not to panic.                    *)
(***************************************************************************)
EXTENDS Integers, Sequences, FiniteSets, TLC

\* ---------------------------------------------------------------- bounds
\* Number of InfluxClient::send calls the owner of the handle issues.
MaxMsgs == 3
\* Number of "Can't recieve message" log lines that are counted.
MaxRecvErrs == 2

\* ------------------------------------------------------------ Option<T>
None == [some |-> FALSE]
Some(m) == [some |-> TRUE, val |-> m]
\* The worker's local `msg` before the first rx.recv() returned.
Unset == [unset |-> TRUE]

VARIABLES
    queue,      \* the mpsc channel: items sent and not yet received
    txAlive,    \* TRUE while a Sender of the channel exists
    wpc,        \* worker thread: "created", "recv", "write", "draining", "terminated"
    msg,        \* worker thread: the last item rx.recv() returned
    written,    \* the client.write_one calls issued so far, in order, with their result
    recvErrs,   \* how often rx.recv() returned Err (logged, then `continue`)
    cpc,        \* owner of the InfluxClient: "active", "joining", "joined", "joinErr", "dropped"
    sendLog,    \* what each Sender::send call was given and returned, in call order
    lines,      \* the lines of the source being read (reader.lines())
    first_row,  \* Csv.first_row / CsvLayout.skip_rows: lines before the header
    layout,     \* the Layout: measure (value), time and tag column names
    hres,       \* what Csv::read_header returned
    ares,       \* what the header part of CsvLayout::convert (Layout::apply) returned
    files,      \* main: the <file> arguments / Csv.files, each openable or not, with its lines
    fi,         \* main / Csv::import: index of the file the loop is at
    ri,         \* convert / Csv::import: index of the line the row loop is at
    mpc,        \* main: "files", "rows", "assert", "exit", "panic"
    ipc,        \* Mapper::import: "files", "rows", "ok", "err", "panic" (Csv), "prompt" (Interactive)
    origin,     \* Csv::import: the file and line each client.send call was made for, in call order
    stdin,      \* Interactive: the lines not yet read from standard input
    eofTurns,   \* Interactive: turns of the loop in which a read found the input at its end
    secs,       \* worker thread: m.time of the message in hand, as digits in base 10^9
    nanos,      \* worker thread: the i64 handed to measure.set_timestamp
    tpc         \* worker thread at client.rs:98: "message", "set", "panic"

vars == <<queue, txAlive, wpc, msg, written, recvErrs, cpc, sendLog,
          lines, first_row, layout, hres, ares, files, fi, ri, mpc,
          ipc, origin, stdin, eofTurns, secs, nanos, tpc>>
\* The state of the legacy driver.
drv == <<files, fi, ri, mpc>>
\* The state of the header resolution.
csv == <<lines, first_row, layout, hres, ares>>
\* The state of a Mapper::import call.
imp == <<ipc, origin, stdin, eofTurns>>
\* The state of the timestamp conversion.
conv == <<secs, nanos, tpc>>

\* --------------------------------------------------------------- channel
\* rx is moved into the worker closure and dropped when the closure
\* returns; Sender::send fails exactly when the Receiver is gone.
RxAlive_OnlyWhileReceiving == wpc = "recv"
RxAlive == wpc # "terminated"

\* tx.send(item): Ok appends to the queue, Err leaves it alone.  The log
\* keeps the item, the result, the worker's position at the call and
\* whether a shutdown signal had been enqueued before it.
ShutdownEnqueued == \E i \in 1..Len(sendLog) : sendLog[i].ok /\ sendLog[i].item = None

ChannelSend(item) ==
    /\ queue' = IF RxAlive THEN Append(queue, item) ELSE queue
    /\ sendLog' = Append(sendLog, [item |-> item, ok |-> RxAlive, at |-> wpc,
                                   afterShutdown |-> ShutdownEnqueued])

\* -------------------------------------------------- worker (client.rs 70-107)
\* create_client(...) and entry into the loop.
WorkerStart ==
    /\ wpc = "created"
    /\ wpc' = "recv"
    /\ UNCHANGED <<queue, txAlive, msg, written, recvErrs, cpc, sendLog>>
    /\ UNCHANGED <<csv, drv, imp, conv>>

\* rx.recv() returned Ok(m): Some(m) goes on to the write, None breaks.
WorkerRecv_Lifo ==
    /\ wpc = "recv"
    /\ queue # <<>>
    /\ msg' = queue[Len(queue)]
    /\ queue' = SubSeq(queue, 1, Len(queue) - 1)
    /\ wpc' = IF queue[Len(queue)] = None THEN "draining" ELSE "write"
    /\ UNCHANGED <<txAlive, written, recvErrs, cpc, sendLog>>
    /\ UNCHANGED <<csv, drv, imp, conv>>

WorkerRecv_NoBreak ==
    /\ wpc = "recv"
    /\ queue # <<>>
    /\ msg' = Head(queue)
    /\ queue' = Tail(queue)
    /\ wpc' = IF Head(queue) = None THEN "recv" ELSE "write"
    /\ UNCHANGED <<txAlive, written, recvErrs, cpc, sendLog>>
    /\ UNCHANGED <<csv, drv, imp, conv>>

WorkerRecv ==
    /\ wpc = "recv"
    /\ queue # <<>>
    /\ msg' = Head(queue)
    /\ queue' = Tail(queue)
    /\ wpc' = IF Head(queue) = None THEN "draining" ELSE "write"
    /\ UNCHANGED <<txAlive, written, recvErrs, cpc, sendLog>>
    /\ UNCHANGED <<csv, drv, imp, conv>>

\* rx.recv() returned Err (no Sender left, nothing buffered): log, continue.
WorkerRecvErr_Break ==
    /\ wpc = "recv"
    /\ queue = <<>>
    /\ ~txAlive
    /\ recvErrs < MaxRecvErrs
    /\ recvErrs' = recvErrs + 1
    /\ wpc' = "draining"
    /\ UNCHANGED <<queue, txAlive, msg, written, cpc, sendLog>>
    /\ UNCHANGED <<csv, drv, imp, conv>>

WorkerRecvErr ==
    /\ wpc = "recv"
    /\ queue = <<>>
    /\ ~txAlive
    /\ recvErrs < MaxRecvErrs
    /\ recvErrs' = recvErrs + 1
    /\ UNCHANGED <<queue, txAlive, wpc, msg, written, cpc, sendLog>>
    /\ UNCHANGED <<csv, drv, imp, conv>>

\* ------------------------------------------------------------------- i64
\* The factor of `m.time * 1000000000`, and the base of the digits.
Billion == 1000000000
\* i64::MAX = 2^63 - 1 = 9223372036854775807 and 2^64, as three digits in
\* base 10^9, most significant first.
I64Max == <<9, 223372036, 854775807>>
Two64 == <<18, 446744073, 709551616>>
Less(a, b) ==
    \/ a[1] < b[1]
    \/ a[1] = b[1] /\ a[2] < b[2]
    \/ a[1] = b[1] /\ a[2] = b[2] /\ a[3] < b[3]
\* a - b for b <= a, with borrows.
Minus(a, b) ==
    LET d3 == a[3] - b[3]
        b3 == IF d3 < 0 THEN 1 ELSE 0
        d2 == a[2] - b[2] - b3
        b2 == IF d2 < 0 THEN 1 ELSE 0
    IN <<a[1] - b[1] - b2, d2 + b2 * Billion, d3 + b3 * Billion>>
\* The mathematical product t * 10^9 of a time t >= 0 of two digits: the
\* digits move up by one place.
MulBillion(t) == <<t[1], t[2], 0>>
\* The product does not fit an i64.
Overflows(p) == Less(I64Max, p)
\* i64::wrapping_mul: the product modulo 2^64, read as two's complement.
RECURSIVE wrapping(_)
wrapping(p) ==
    IF ~Less(I64Max, p) THEN [neg |-> FALSE, mag |-> p]
    ELSE IF Less(p, Two64) THEN [neg |-> TRUE, mag |-> Minus(Two64, p)]
    ELSE wrapping(Minus(p, Two64))

\* The record of one message: one add_field call with the value pair, one
\* add_tag call per tag in the order of m.tags, and the timestamp:
\* m.time * 1000000000 in client.rs, m.time itself in the legacy worker of
\* main.rs.  The times of the messages are below 10^9 (one digit); the
\* multiplication on larger times is WorkerSetTimestamp.
Measurement_TagsReversed(m) ==
    [fields |-> << <<m.value[1], m.value[2]>> >>,
     timestamp |-> wrapping(MulBillion(<<0, m.time>>)),
     tags |-> [k \in 1..Len(m.tags) |->
                  <<m.tags[Len(m.tags) + 1 - k][1], m.tags[Len(m.tags) + 1 - k][2]>>]]

Measurement(m) ==
    [fields |-> << <<m.value[1], m.value[2]>> >>,
     timestamp |-> wrapping(MulBillion(<<0, m.time>>)),
     tags |-> [k \in 1..Len(m.tags) |-> <<m.tags[k][1], m.tags[k][2]>>]]

LegacyMeasurement(m) ==
    [fields |-> << <<m.value[1], m.value[2]>> >>,
     timestamp |-> [neg |-> FALSE, mag |-> <<0, 0, m.time>>],
     tags |-> [k \in 1..Len(m.tags) |-> <<m.tags[k][1], m.tags[k][2]>>]]

\* The worker of client.rs, or the one main.rs starts for itself.
WorkerRecord(m) == IF mpc = "idle" THEN Measurement(m) ELSE LegacyMeasurement(m)

\* The record is built and client.write_one is called once; its error is
\* logged and the loop goes on.
WorkerWrite_BreakOnError ==
    /\ wpc = "write"
    /\ \E ok \in BOOLEAN :
        /\ written' = Append(written, [m |-> msg.val, rec |-> WorkerRecord(msg.val), ok |-> ok])
        /\ wpc' = IF ok THEN "recv" ELSE "draining"
    /\ UNCHANGED <<queue, txAlive, msg, recvErrs, cpc, sendLog>>
    /\ UNCHANGED <<csv, drv, imp, conv>>

WorkerWrite_RetryOnError ==
    /\ wpc = "write"
    /\ \E ok \in BOOLEAN :
        /\ written' = Append(written, [m |-> msg.val, rec |-> WorkerRecord(msg.val), ok |-> ok])
        /\ wpc' = IF ok THEN "recv" ELSE "write"
    /\ UNCHANGED <<queue, txAlive, msg, recvErrs, cpc, sendLog>>
    /\ UNCHANGED <<csv, drv, imp, conv>>

WorkerWrite ==
    /\ wpc = "write"
    /\ \E ok \in BOOLEAN :
        written' = Append(written, [m |-> msg.val, rec |-> WorkerRecord(msg.val), ok |-> ok])
    /\ wpc' = "recv"
    /\ UNCHANGED <<queue, txAlive, msg, recvErrs, cpc, sendLog>>
    /\ UNCHANGED <<csv, drv, imp, conv>>

\* After `break` the closure returns: rx is dropped, the thread is joinable.
WorkerExit_BreakLeavesMatchOnly ==
    /\ wpc = "draining"
    /\ wpc' = "recv"
    /\ UNCHANGED <<queue, txAlive, msg, written, recvErrs, cpc, sendLog>>
    /\ UNCHANGED <<csv, drv, imp, conv>>

WorkerExit ==
    /\ wpc = "draining"
    /\ wpc' = "terminated"
    /\ UNCHANGED <<queue, txAlive, msg, written, recvErrs, cpc, sendLog>>
    /\ UNCHANGED <<csv, drv, imp, conv>>

Worker ==
    \/ WorkerStart
    \/ WorkerRecv
    \/ WorkerRecvErr
    \/ WorkerWrite
    \/ WorkerExit

\* ------------------------------------- owner of the handle (client.rs 44-54)
\* Messages the owner has handed to send so far.
NumSends == Cardinality({i \in 1..Len(sendLog) : sendLog[i].item # None})

\* The n-th message the owner sends: it is identified by its time.
Msg(n) == [time |-> n, value |-> << <<"m">>, <<"v">> >>, tags |-> <<>>]

\* InfluxClient::send(&self, msg)
Send ==
    /\ cpc = "active"
    /\ NumSends < MaxMsgs
    /\ ChannelSend(Some(Msg(NumSends + 1)))
    /\ UNCHANGED <<txAlive, wpc, msg, written, recvErrs, cpc>>
    /\ UNCHANGED <<csv, drv, imp, conv>>

\* InfluxClient::join(self), first half: tx.send(None); an Err is returned
\* at once, an Ok goes on to thread_handle.join().
JoinSend ==
    /\ cpc = "active"
    /\ ChannelSend(None)
    /\ cpc' = IF RxAlive THEN "joining" ELSE "joinErr"
    /\ txAlive' = RxAlive
    /\ UNCHANGED <<wpc, msg, written, recvErrs>>
    /\ UNCHANGED <<csv, drv, imp, conv>>

\* InfluxClient::join(self), second half: thread_handle.join() returns once
\* the worker thread has exited; self (and its Sender) is dropped.
JoinReturn_NoWait ==
    /\ cpc = "joining"
    /\ cpc' = "joined"
    /\ txAlive' = FALSE
    /\ UNCHANGED <<queue, wpc, msg, written, recvErrs, sendLog>>
    /\ UNCHANGED <<csv, drv, imp, conv>>

JoinReturn_KeepsHandle ==
    /\ cpc = "joining"
    /\ wpc = "terminated"
    /\ cpc' = "active"
    /\ txAlive' = TRUE
    /\ UNCHANGED <<queue, wpc, msg, written, recvErrs, sendLog>>
    /\ UNCHANGED <<csv, drv, imp, conv>>

JoinReturn ==
    /\ cpc = "joining"
    /\ wpc = "terminated"
    /\ cpc' = "joined"
    /\ txAlive' = FALSE
    /\ UNCHANGED <<queue, wpc, msg, written, recvErrs, sendLog>>
    /\ UNCHANGED <<csv, drv, imp, conv>>

\* The handle goes out of scope without join: the Sender is dropped and the
\* thread is detached.
DropClient ==
    /\ cpc = "active"
    /\ cpc' = "dropped"
    /\ txAlive' = FALSE
    /\ UNCHANGED <<queue, wpc, msg, written, recvErrs, sendLog>>
    /\ UNCHANGED <<csv, drv, imp, conv>>


\* ------------------------------------------- header resolution (csv.rs, main.rs)
\* Longest header line that is enumerated.
MaxLineLen == 5
\* Largest number of lines skipped before the header.
MaxSkip == 1

\* Csv.delimiter / CsvLayout.del.
Del == ","

\* A line of reader.lines(): Ok(text) or Err(io error).
Line(s) == [err |-> FALSE, s |-> s]
IoErr == [err |-> TRUE, s |-> <<>>]

\* Results.
Ok(v) == [ok |-> TRUE, val |-> v]
NotFound(what) == [ok |-> FALSE, kind |-> "NotFound", what |-> what]
ImportError(why) == [ok |-> FALSE, kind |-> "Import", what |-> why]
Pending == [ok |-> FALSE, kind |-> "Pending", what |-> ""]

\* data.iter().position(|e| e == name): the scan stops at the first match;
\* indices count from 0.
RECURSIVE position_Last(_, _, _)
position_Last(data, name, i) ==
    IF i > Len(data) THEN None
    ELSE LET rest == position_Last(data, name, i + 1) IN
         IF rest # None THEN rest
         ELSE IF data[i] = name THEN Some(i - 1) ELSE None

RECURSIVE position(_, _, _)
position(data, name, i) ==
    IF i > Len(data) THEN None
    ELSE IF data[i] = name THEN Some(i - 1)
    ELSE position(data, name, i + 1)

\* Csv::find_pos
find_pos(name, data) ==
    LET p == position(data, name, 1) IN
    IF p = None THEN NotFound(name) ELSE Ok(p.val)

\* Csv::find_positions: filter_map keeps the positions that were found, in
\* the order of the names.
RECURSIVE find_positions_AbsentAsZero(_, _)
find_positions_AbsentAsZero(names, data) ==
    IF names = <<>> THEN <<>>
    ELSE LET r == find_pos(Head(names), data) IN
         (IF r.ok THEN <<r.val>> ELSE <<0>>)
             \o find_positions_AbsentAsZero(Tail(names), data)

RECURSIVE find_positions(_, _)
find_positions(names, data) ==
    IF names = <<>> THEN <<>>
    ELSE LET r == find_pos(Head(names), data) IN
         (IF r.ok THEN <<r.val>> ELSE <<>>) \o find_positions(Tail(names), data)

\* Csv::split / str::split(del): n delimiters give n + 1 tokens.
RECURSIVE SplitFrom(_, _, _)
SplitFrom(s, i, cur) ==
    IF i > Len(s) THEN <<cur>>
    ELSE IF s[i] = Del THEN <<cur>> \o SplitFrom(s, i + 1, <<>>)
    ELSE SplitFrom(s, i + 1, Append(cur, s[i]))
split(s) == SplitFrom(s, 1, <<>>)

\* Csv::skip: lines.skip(first_row).next()
skip(ls, n) ==
    IF Len(ls) <= n THEN ImportError("Header not found")
    ELSE IF ls[n + 1].err THEN ImportError("io")
    ELSE Ok(ls[n + 1].s)

\* Csv::read_header
read_header_TimeFirst(lay, ls, n) ==
    LET line == skip(ls, n) IN
    IF ~line.ok THEN line
    ELSE LET header == split(line.val)
             measure == find_pos(lay.measure, header)
             time == find_pos(lay.time, header)
         IN IF ~time.ok THEN time
            ELSE IF ~measure.ok THEN measure
            ELSE Ok([measure |-> measure.val, time |-> time.val,
                     tags |-> find_positions(lay.tags, header)])

read_header(lay, ls, n) ==
    LET line == skip(ls, n) IN
    IF ~line.ok THEN line
    ELSE LET header == split(line.val)
             measure == find_pos(lay.measure, header)
             time == find_pos(lay.time, header)
         IN IF ~measure.ok THEN measure
            ELSE IF ~time.ok THEN time
            ELSE Ok([measure |-> measure.val, time |-> time.val,
                     tags |-> find_positions(lay.tags, header)])

\* Layout::apply (main.rs)
RECURSIVE apply_tags(_, _)
apply_tags(tags, data) ==
    IF tags = <<>> THEN <<>>
    ELSE LET p == position(data, Head(tags), 1) IN
         (IF p # None THEN <<p.val>> ELSE <<>>) \o apply_tags(Tail(tags), data)

apply(lay, data) ==
    LET val == position(data, lay.measure, 1)
        time == position(data, lay.time, 1)
    IN IF val = None THEN NotFound("Value")
       ELSE IF time = None THEN NotFound("Timestamp")
       ELSE Ok([measure |-> val.val, time |-> time.val,
                tags |-> apply_tags(lay.tags, data)])

\* CsvLayout::convert, up to the resolved columns.
convert_header(lay, ls, n) ==
    IF Len(ls) <= n \/ ls[n + 1].err THEN ImportError("header")
    ELSE apply(lay, split(ls[n + 1].s))

\* The inputs: header lines over a small alphabet, optionally behind one
\* other line, and layouts naming the columns m and t, with tag names that
\* are in the header, absent from it (b is in no header) or the time name.
Alphabet == {"m", "t", "a", Del}
HeaderLines == UNION {[1..n -> Alphabet] : n \in 0..MaxLineLen}
OtherLine == Line(<<"t", Del, "x">>)
Sources ==
    {<<>>, <<IoErr>>}
    \cup {<<Line(h)>> : h \in HeaderLines}
    \cup {<<OtherLine, Line(h)>> : h \in HeaderLines}
Layouts ==
    {[measure |-> <<"m">>, time |-> <<"t">>, tags |-> tg] :
        tg \in {<<>>, << <<"a">> >>, << <<"b">>, <<"a">> >>, << <<"a">>, <<"t">> >>}}

\* csv.read_header(&layout, lines)
ReadHeader ==
    /\ hres = Pending
    /\ hres' = read_header(layout, lines, first_row)
    /\ UNCHANGED <<lines, first_row, layout, ares, drv, imp, conv>>
    /\ UNCHANGED <<queue, txAlive, wpc, msg, written, recvErrs, cpc, sendLog>>

\* The header part of csv_layout.convert(&tx, reader, ..)
ConvertHeader ==
    /\ ares = Pending
    /\ ares' = convert_header(layout, lines, first_row)
    /\ UNCHANGED <<lines, first_row, layout, hres, drv, imp, conv>>
    /\ UNCHANGED <<queue, txAlive, wpc, msg, written, recvErrs, cpc, sendLog>>

\* No source is being read.
CsvIdle ==
    /\ lines = <<>>
    /\ first_row = 0
    /\ layout = [measure |-> <<"m">>, time |-> <<"t">>, tags |-> <<>>]
    /\ hres = Pending
    /\ ares = Pending


\* ------------------------------------------------ legacy driver (main.rs)
\* Number of <file> arguments.
MaxFiles == 2

\* Message::default(): the time is Utc::now().timestamp().
NowSecs == 99

\* Utc.datetime_from_str(col, tformat).timestamp(): the format is a run of
\* decimal digits, read as seconds; anything else is a parse error.
DigitVal(c) == CASE c = "0" -> 0 [] c = "1" -> 1 [] c = "2" -> 2 [] c = "3" -> 3
                 [] c = "4" -> 4 [] c = "5" -> 5 [] c = "6" -> 6 [] c = "7" -> 7
                 [] c = "8" -> 8 [] c = "9" -> 9 [] OTHER -> -1
RECURSIVE DigitsFrom(_, _, _)
DigitsFrom(s, i, acc) ==
    IF i > Len(s) THEN Some(acc)
    ELSE IF DigitVal(s[i]) < 0 THEN None
    ELSE DigitsFrom(s, i + 1, acc * 10 + DigitVal(s[i]))
datetime_from_str(s) == IF s = <<>> THEN None ELSE DigitsFrom(s, 1, 0)

\* CsvLayout::convert, the loop over the columns of one row: the value
\* column, else the time column (a parse error leaves the default time),
\* else a tag column named by its position in the resolved tag columns.
RECURSIVE ConvertCols(_, _, _, _, _)
ConvertCols(lay, c, toks, j, m) ==
    IF j >= Len(toks) THEN m
    ELSE LET col == toks[j + 1]
             t == datetime_from_str(col)
             pos == position(c.tags, j, 1)
             m2 == IF c.measure = j
                       THEN [m EXCEPT !.value = <<lay.measure, col>>]
                   ELSE IF c.time = j
                       THEN (IF t # None THEN [m EXCEPT !.time = t.val] ELSE m)
                   ELSE IF pos # None
                       THEN [m EXCEPT !.tags = Append(@, <<lay.tags[pos.val + 1], col>>)]
                   ELSE m
         IN ConvertCols(lay, c, toks, j + 1, m2)

ConvertRow(lay, c, row) ==
    ConvertCols(lay, c, split(row), 0,
                [time |-> NowSecs, value |-> <<"", "">>, tags |-> <<>>])

\* main, one turn of `for file in ..`: File::open fails (logged), or
\* convert starts and either fails at the header or enters its row loop.
MainOpen ==
    /\ mpc = "files"
    /\ fi <= Len(files)
    /\ IF ~files[fi].open
       THEN /\ fi' = fi + 1
            /\ UNCHANGED <<mpc, ri, lines, ares>>
       ELSE /\ lines' = files[fi].lines
            /\ ares' = convert_header(layout, files[fi].lines, first_row)
            /\ ri' = first_row + 2
            /\ mpc' = IF ares'.ok THEN "rows" ELSE "assert"
            /\ fi' = fi
    /\ UNCHANGED <<files, first_row, layout, hres, imp, conv>>
    /\ UNCHANGED <<queue, txAlive, wpc, msg, written, recvErrs, cpc, sendLog>>

\* convert, one row: a readable row is converted and sent (a send error is
\* logged); an unreadable row is logged.
MainRow ==
    /\ mpc = "rows"
    /\ ri <= Len(lines)
    /\ IF lines[ri].err
       THEN UNCHANGED <<queue, sendLog>>
       ELSE ChannelSend(Some(ConvertRow(layout, ares.val, lines[ri].s)))
    /\ ri' = ri + 1
    /\ UNCHANGED <<files, fi, mpc, csv, imp, conv>>
    /\ UNCHANGED <<txAlive, wpc, msg, written, recvErrs, cpc>>

\* convert, after the last row: tx.send(None) (a send error is logged),
\* return Ok(()); main goes to the next file.
MainSendNone ==
    /\ mpc = "rows"
    /\ ri > Len(lines)
    /\ ChannelSend(None)
    /\ fi' = fi + 1
    /\ mpc' = "files"
    /\ UNCHANGED <<files, ri, csv, imp, conv>>
    /\ UNCHANGED <<txAlive, wpc, msg, written, recvErrs, cpc>>

\* main, convert returned Err: assert!(tx.send(None).is_ok()).
MainAssert ==
    /\ mpc = "assert"
    /\ ChannelSend(None)
    /\ IF RxAlive
       THEN fi' = fi + 1 /\ mpc' = "files" /\ UNCHANGED txAlive
       ELSE fi' = fi /\ mpc' = "panic" /\ txAlive' = FALSE
    /\ UNCHANGED <<files, ri, csv, imp, conv>>
    /\ UNCHANGED <<wpc, msg, written, recvErrs, cpc>>

\* main, after the loop: h.join() returns once the worker has exited.
MainJoin ==
    /\ mpc = "files"
    /\ fi > Len(files)
    /\ wpc = "terminated"
    /\ mpc' = "exit"
    /\ txAlive' = FALSE
    /\ UNCHANGED <<files, fi, ri, csv, imp, conv>>
    /\ UNCHANGED <<queue, wpc, msg, written, recvErrs, cpc, sendLog>>

\* start_influxdb_client: the same worker loop; main keeps tx until it
\* ends, and it ends only after the worker, so recv never returns Err.
MainWorker ==
    \/ WorkerStart
    \/ WorkerRecv
    \/ WorkerWrite
    \/ WorkerExit

\* The <file> arguments that are enumerated.
FileSet ==
    { [open |-> FALSE, lines |-> <<>>],
      [open |-> TRUE, lines |-> <<>>],
      [open |-> TRUE, lines |-> <<Line(<<"t", Del, "a">>), Line(<<"1", Del, "5">>)>>],
      [open |-> TRUE, lines |-> <<Line(<<"t", Del, "m">>), Line(<<"1", Del, "5">>)>>],
      [open |-> TRUE, lines |-> <<Line(<<"t", Del, "m">>), Line(<<"x", Del, "6">>),
                                  IoErr, Line(<<"2", Del, "7">>)>>] }

\* No driver is running.
DrvIdle ==
    /\ files = <<>>
    /\ fi = 1
    /\ ri = 1
    /\ mpc = "idle"

\* ------------------------------------------ Csv::import (mapper/csv.rs)
\* The tags of one row: the i-th resolved tag column gets the name
\* layout.tags[i] (`for (i, n) in tags.iter().enumerate()`).
ImportTags(lay, tags, data) ==
    [i \in 1..Len(tags) |-> <<lay.tags[i], data[tags[i] + 1]>>]

\* Indexing the row's tokens out of bounds panics: data[measure] and
\* data[time] are read first, data[*n] only once the timestamp has parsed.
RowPanics(c, data) ==
    \/ c.measure >= Len(data)
    \/ c.time >= Len(data)
    \/ /\ datetime_from_str(data[c.time + 1]) # None
       /\ \E k \in 1..Len(c.tags) : c.tags[k] >= Len(data)

\* One turn of `for file in &self.files`, up to the row loop: try!(open)
\* returns the error from import; a header that does not resolve is logged
\* and the loop continues with the next file; else the file is opened
\* again and first_row + 1 lines are skipped.
CsvOpen_HeaderAborts ==
    /\ ipc = "files"
    /\ fi <= Len(files)
    /\ IF ~files[fi].open
       THEN /\ ipc' = "err"
            /\ UNCHANGED <<fi, ri, lines, hres>>
       ELSE /\ hres' = read_header(layout, files[fi].lines, first_row)
            /\ lines' = files[fi].lines
            /\ IF hres'.ok
               THEN ipc' = "rows" /\ ri' = first_row + 2 /\ fi' = fi
               ELSE ipc' = "err" /\ fi' = fi /\ ri' = ri
    /\ UNCHANGED <<files, first_row, layout, ares, mpc, origin, stdin, eofTurns, conv>>
    /\ UNCHANGED <<queue, txAlive, wpc, msg, written, recvErrs, cpc, sendLog>>

CsvOpen_HeaderAsRow ==
    /\ ipc = "files"
    /\ fi <= Len(files)
    /\ IF ~files[fi].open
       THEN /\ ipc' = "err"
            /\ UNCHANGED <<fi, ri, lines, hres>>
       ELSE /\ hres' = read_header(layout, files[fi].lines, first_row)
            /\ lines' = files[fi].lines
            /\ IF hres'.ok
               THEN ipc' = "rows" /\ ri' = first_row + 1 /\ fi' = fi
               ELSE ipc' = "files" /\ fi' = fi + 1 /\ ri' = ri
    /\ UNCHANGED <<files, first_row, layout, ares, mpc, origin, stdin, eofTurns, conv>>
    /\ UNCHANGED <<queue, txAlive, wpc, msg, written, recvErrs, cpc, sendLog>>

CsvOpen ==
    /\ ipc = "files"
    /\ fi <= Len(files)
    /\ IF ~files[fi].open
       THEN /\ ipc' = "err"
            /\ UNCHANGED <<fi, ri, lines, hres>>
       ELSE /\ hres' = read_header(layout, files[fi].lines, first_row)
            /\ lines' = files[fi].lines
            /\ IF hres'.ok
               THEN ipc' = "rows" /\ ri' = first_row + 2 /\ fi' = fi
               ELSE ipc' = "files" /\ fi' = fi + 1 /\ ri' = ri
    /\ UNCHANGED <<files, first_row, layout, ares, mpc, origin, stdin, eofTurns, conv>>
    /\ UNCHANGED <<queue, txAlive, wpc, msg, written, recvErrs, cpc, sendLog>>

\* One turn of `for line in lines`: an unreadable line returns the error
\* from import (try!); a row that lacks an indexed token panics, and the
\* unwinding caller drops the client; a timestamp that does not parse is
\* logged and the row is left out; else the message is built and sent (a
\* send error is logged).
CsvRow ==
    /\ ipc = "rows"
    /\ ri <= Len(lines)
    /\ IF lines[ri].err
       THEN /\ ipc' = "err"
            /\ UNCHANGED <<ri, origin, queue, sendLog, txAlive, cpc>>
       ELSE LET data == split(lines[ri].s)
                c == hres.val
            IN IF RowPanics(c, data)
               THEN /\ ipc' = "panic"
                    /\ txAlive' = FALSE
                    /\ cpc' = "dropped"
                    /\ UNCHANGED <<ri, origin, queue, sendLog>>
               ELSE LET timestamp == datetime_from_str(data[c.time + 1]) IN
                    /\ IF timestamp = None
                       THEN UNCHANGED <<origin, queue, sendLog>>
                       ELSE /\ ChannelSend(Some(
                                   [time |-> timestamp.val,
                                    value |-> <<layout.measure, data[c.measure + 1]>>,
                                    tags |-> ImportTags(layout, c.tags, data)]))
                            /\ origin' = Append(origin, [file |-> fi, row |-> ri])
                    /\ ri' = ri + 1
                    /\ UNCHANGED <<ipc, txAlive, cpc>>
    /\ UNCHANGED <<files, fi, mpc, csv, stdin, eofTurns, conv>>
    /\ UNCHANGED <<wpc, msg, written, recvErrs>>

\* The row loop is through: the next file.
CsvEndFile_Rewind ==
    /\ ipc = "rows"
    /\ ri > Len(lines)
    /\ fi' = IF fi > 1 THEN fi - 1 ELSE fi + 1
    /\ ipc' = "files"
    /\ UNCHANGED <<files, ri, mpc, csv, origin, stdin, eofTurns, conv>>
    /\ UNCHANGED <<queue, txAlive, wpc, msg, written, recvErrs, cpc, sendLog>>

CsvEndFile ==
    /\ ipc = "rows"
    /\ ri > Len(lines)
    /\ fi' = fi + 1
    /\ ipc' = "files"
    /\ UNCHANGED <<files, ri, mpc, csv, origin, stdin, eofTurns, conv>>
    /\ UNCHANGED <<queue, txAlive, wpc, msg, written, recvErrs, cpc, sendLog>>

\* The file loop is through: Ok(()).
CsvReturn ==
    /\ ipc = "files"
    /\ fi > Len(files)
    /\ ipc' = "ok"
    /\ UNCHANGED <<files, fi, ri, mpc, csv, origin, stdin, eofTurns, conv>>
    /\ UNCHANGED <<queue, txAlive, wpc, msg, written, recvErrs, cpc, sendLog>>

\* ------------------------------ Interactive::import (mapper/interactive.rs)
\* str::trim, for the blank as the only whitespace.
RECURSIVE trim_start(_)
trim_start(s) == IF s # <<>> /\ Head(s) = " " THEN trim_start(Tail(s)) ELSE s
RECURSIVE trim_end(_)
trim_end(s) ==
    IF s # <<>> /\ s[Len(s)] = " " THEN trim_end(SubSeq(s, 1, Len(s) - 1)) ELSE s
trim(s) == trim_end(trim_start(s))

\* Interactive::read_string on the input that is left: at the end of the
\* input read_line returns Ok(0) and the buffer stays empty.
read_string(in) ==
    IF in = <<>> THEN [ok |-> TRUE, s |-> <<>>, rest |-> <<>>, eof |-> TRUE]
    ELSE IF Head(in).err
         THEN [ok |-> FALSE, s |-> <<>>, rest |-> Tail(in), eof |-> FALSE]
    ELSE [ok |-> TRUE, s |-> trim(Head(in).s), rest |-> Tail(in), eof |-> FALSE]

\* Interactive::read_input: three read_string calls, each under try!.
read_input(in) ==
    LET measure == read_string(in)
        time == read_string(measure.rest)
        tags == read_string(time.rest)
        failed(r) == [ok |-> FALSE, measure |-> <<>>, time |-> <<>>,
                      tags |-> <<>>, rest |-> r.rest, eof |-> FALSE]
    IN IF ~measure.ok THEN failed(measure)
       ELSE IF ~time.ok THEN failed(time)
       ELSE IF ~tags.ok THEN failed(tags)
       ELSE [ok |-> TRUE, measure |-> measure.s, time |-> time.s,
             tags |-> split(tags.s), rest |-> tags.rest,
             eof |-> measure.eof \/ time.eof \/ tags.eof]

\* Iterator::zip stops with the shorter side.
zip_Pad(a, b) ==
    [k \in 1..(IF Len(a) > Len(b) THEN Len(a) ELSE Len(b)) |->
        <<IF k <= Len(a) THEN a[k] ELSE <<>>, IF k <= Len(b) THEN b[k] ELSE <<>> >>]

zip(a, b) ==
    [k \in 1..(IF Len(a) < Len(b) THEN Len(a) ELSE Len(b)) |-> <<a[k], b[k]>>]

\* layout.tags.iter().filter(|e| !e.is_empty()).zip(tags)
InteractiveTags_NoFilter(lay, typed) == zip(lay.tags, typed)

InteractiveTags(lay, typed) ==
    zip(SelectSeq(lay.tags, LAMBDA e : e # <<>>), typed)

\* Turns at the end of the input that are counted.
MaxEofTurns == 2

\* One turn of the loop: read_input (an error is logged), the time is
\* parsed (an error is logged), the message is built and sent (a send
\* error is logged); then the next turn.  A read at the end of the input
\* is an Ok like any other, so such a turn is followed by the next turn.
InteractiveTurn_SendsUnparsed ==
    /\ ipc = "prompt"
    /\ LET in == read_input(stdin)
           time == datetime_from_str(in.time)
       IN /\ in.eof => eofTurns < MaxEofTurns
          /\ eofTurns' = IF in.eof THEN eofTurns + 1 ELSE eofTurns
          /\ stdin' = in.rest
          /\ IF in.ok
             THEN ChannelSend(Some([time |-> IF time # None THEN time.val ELSE NowSecs,
                                    value |-> <<layout.measure, in.measure>>,
                                    tags |-> InteractiveTags(layout, in.tags)]))
             ELSE UNCHANGED <<queue, sendLog>>
    /\ UNCHANGED <<ipc, origin, csv, drv, conv>>
    /\ UNCHANGED <<txAlive, wpc, msg, written, recvErrs, cpc>>

InteractiveTurn ==
    /\ ipc = "prompt"
    /\ LET in == read_input(stdin)
           time == datetime_from_str(in.time)
       IN /\ in.eof => eofTurns < MaxEofTurns
          /\ eofTurns' = IF in.eof THEN eofTurns + 1 ELSE eofTurns
          /\ stdin' = in.rest
          /\ IF in.ok /\ time # None
             THEN ChannelSend(Some([time |-> time.val,
                                    value |-> <<layout.measure, in.measure>>,
                                    tags |-> InteractiveTags(layout, in.tags)]))
             ELSE UNCHANGED <<queue, sendLog>>
    /\ UNCHANGED <<ipc, origin, csv, drv, conv>>
    /\ UNCHANGED <<txAlive, wpc, msg, written, recvErrs, cpc>>

\* The caller of import, once import has returned: client.join().
ImportJoin ==
    /\ ipc \in {"ok", "err"}
    /\ JoinSend

\* Number of entries typed in the interactive mode.
MaxEntries == 2

\* The files that are enumerated: one that cannot be opened, an empty one,
\* rows with two tag columns (a time that does not parse, a last row
\* without the column c), a row that is too short, a line that cannot be
\* read, and a header behind one other line (with first_row = 0 that line
\* is a header without the measure name, with first_row = 1 the headers of
\* the other files are data rows).
CsvFiles ==
    { [open |-> FALSE, lines |-> <<>>],
      [open |-> TRUE, lines |-> <<>>],
      [open |-> TRUE, lines |-> <<Line(<<"a", Del, "m", Del, "t", Del, "c">>),
                                  Line(<<"7", Del, "5", Del, "1", Del, "4">>),
                                  Line(<<"8", Del, "6", Del, "x", Del, "4">>),
                                  Line(<<"9", Del, "7", Del, "3">>)>>],
      [open |-> TRUE, lines |-> <<Line(<<"m", Del, "t">>), Line(<<"5">>),
                                  Line(<<"6", Del, "2">>)>>],
      [open |-> TRUE, lines |-> <<Line(<<"m", Del, "t">>), IoErr,
                                  Line(<<"6", Del, "2">>)>>],
      [open |-> TRUE, lines |-> <<Line(<<"x">>), Line(<<"t", Del, "m">>),
                                  Line(<<"4", Del, "8">>)>>] }

\* What is typed for one entry: value, time and tags; a time that does not
\* parse; no tags; a line that cannot be read; an entry cut short.
Entries ==
    { <<Line(<<"5">>), Line(<<" ", "1">>), Line(<<"7", Del, "8", Del, "9">>)>>,
      <<Line(<<"5">>), Line(<<"x">>), Line(<<"7">>)>>,
      <<Line(<<"6">>), Line(<<"2">>), Line(<<>>)>>,
      <<Line(<<"5">>), IoErr>>,
      <<Line(<<"6">>), Line(<<"3">>)>> }

\* The layouts: tag names a and c (columns of one file), b (in no header)
\* and the empty name.
ImportLayouts ==
    {[measure |-> <<"m">>, time |-> <<"t">>, tags |-> tg] :
        tg \in {<< <<"a">>, <<"c">> >>, << <<"b">>, <<"a">> >>, << <<>>, <<"a">> >>}}

RECURSIVE Typed(_)
Typed(n) == IF n = 0 THEN {<<>>} ELSE {e \o r : e \in Entries, r \in Typed(n - 1)}

\* No Mapper::import call is running.
ImpIdle ==
    /\ ipc = "idle"
    /\ origin = <<>>
    /\ stdin = <<>>
    /\ eofTurns = 0

\* ------------------------------------------------- timestamp conversion
\* Largest leading digit of a message time: times up to (MaxSecsHi + 1) *
\* 10^9 seconds, which chrono's DateTime<Utc> holds (year 2286 is 10^10 s).
MaxSecsHi == 19
\* Message times from 1970 on, around the values where the product passes
\* i64::MAX and 2^64.
MessageTimes ==
    {<<hi, lo>> : hi \in 0..MaxSecsHi,
                  lo \in {0, 1, 223372036, 223372037, 446744073, 446744074, 999999999}}
\* measure.set_timestamp(m.time * 1000000000): with overflow checks the
\* multiplication panics when the product does not fit, without them it
\* wraps.
WorkerSetTimestamp ==
    /\ tpc = "message"
    /\ LET p == MulBillion(secs) IN
          \/ /\ Overflows(p)
             /\ tpc' = "panic"
             /\ nanos' = nanos
          \/ /\ tpc' = "set"
             /\ nanos' = wrapping(p)
    /\ UNCHANGED secs
    /\ UNCHANGED <<queue, txAlive, wpc, msg, written, recvErrs, cpc, sendLog>>
    /\ UNCHANGED <<csv, drv, imp>>
\* No message is being converted.
ConvIdle ==
    /\ secs = <<0, 0>>
    /\ nanos = wrapping(<<0, 0, 0>>)
    /\ tpc = "idle"

\* State after InfluxClient::new returned Ok.
WriterInit ==
    /\ queue = <<>>
    /\ txAlive = TRUE
    /\ wpc = "created"
    /\ msg = Unset
    /\ written = <<>>
    /\ recvErrs = 0
    /\ cpc = "active"
    /\ sendLog = <<>>

Init == WriterInit /\ CsvIdle /\ DrvIdle /\ ImpIdle /\ ConvIdle

Next ==
    \/ Send
    \/ JoinSend
    \/ JoinReturn
    \/ DropClient
    \/ Worker

Spec == Init /\ [][Next]_vars

\* The worker thread is scheduled and each write call returns; a blocked
\* thread_handle.join() returns once the thread has exited.
FairSpec == Spec /\ WF_vars(Worker) /\ WF_vars(JoinReturn)

\* Header resolution on every enumerated source and layout.
HeaderInit ==
    /\ WriterInit
    /\ lines \in Sources
    /\ first_row \in 0..MaxSkip
    /\ layout \in Layouts
    /\ hres = Pending
    /\ ares = Pending
    /\ DrvIdle
    /\ ImpIdle
    /\ ConvIdle

HeaderNext ==
    \/ ReadHeader
    \/ ConvertHeader

HeaderSpec == HeaderInit /\ [][HeaderNext]_vars

\* main after start_influxdb_client and CsvLayout::new, on every list of
\* enumerated files; the usage `rinflux [options] <file>...` asks for at
\* least one.
MainInit ==
    /\ WriterInit
    /\ CsvIdle
    /\ files \in UNION {[1..n -> FileSet] : n \in 1..MaxFiles}
    /\ fi = 1
    /\ ri = 1
    /\ mpc = "files"
    /\ ImpIdle
    /\ ConvIdle

MainNext ==
    \/ MainOpen
    \/ MainRow
    \/ MainSendNone
    \/ MainAssert
    \/ MainJoin
    \/ MainWorker

MainSpec == MainInit /\ [][MainNext]_vars

\* Mapper::import on a running InfluxClient: Csv on every list of enumerated
\* files, Interactive on every enumerated input; the caller joins the
\* client once import has returned.
ImportInit ==
    /\ WriterInit
    /\ layout \in ImportLayouts
    /\ lines = <<>>
    /\ hres = Pending
    /\ ares = Pending
    /\ fi = 1
    /\ ri = 1
    /\ mpc = "idle"
    /\ origin = <<>>
    /\ eofTurns = 0
    /\ ConvIdle
    /\ \/ /\ ipc = "files"
          /\ files \in UNION {[1..n -> CsvFiles] : n \in 0..MaxFiles}
          /\ first_row \in 0..MaxSkip
          /\ stdin = <<>>
       \/ /\ ipc = "prompt"
          /\ files = <<>>
          /\ first_row = 0
          /\ stdin \in UNION {Typed(n) : n \in 0..MaxEntries}

ImportNext ==
    \/ CsvOpen
    \/ CsvRow
    \/ CsvEndFile
    \/ CsvReturn
    \/ InteractiveTurn
    \/ ImportJoin
    \/ JoinReturn
    \/ Worker

ImportSpec == ImportInit /\ [][ImportNext]_vars

\* The worker holding a message of every enumerated time, at the line that
\* converts its time.
NanosInit ==
    /\ WriterInit
    /\ CsvIdle
    /\ DrvIdle
    /\ ImpIdle
    /\ secs \in MessageTimes
    /\ nanos = wrapping(<<0, 0, 0>>)
    /\ tpc = "message"

NanosNext == WorkerSetTimestamp

NanosSpec == NanosInit /\ [][NanosNext]_vars

\* ================================================================ claims
\* The messages whose send returned Ok, in call order.
RECURSIVE AcceptedFrom(_)
AcceptedFrom(i) ==
    IF i > Len(sendLog) THEN <<>>
    ELSE IF sendLog[i].ok /\ sendLog[i].item # None
         THEN <<sendLog[i].item.val>> \o AcceptedFrom(i + 1)
         ELSE AcceptedFrom(i + 1)
Accepted == AcceptedFrom(1)
\* The messages handed to client.write_one, in call order.
Attempted == [i \in 1..Len(written) |-> written[i].m]
IsPrefix(s, t) == Len(s) <= Len(t) /\ \A i \in 1..Len(s) : s[i] = t[i]
InSeq(x, s) == \E i \in 1..Len(s) : s[i] = x

\* C1: the write calls are issued for the accepted messages in exactly the
\* order they were enqueued: at every moment the sequence of write calls is
\* a prefix of the sequence of accepted sends.
C1_WriterFifo == IsPrefix(Attempted, Accepted)
C1_Witness == Len(written) >= 2 /\ Len(queue) >= 1

\* C2: when join has returned Ok the worker thread has exited, nothing is
\* left in the queue and every accepted message has had its write attempted.
C2_DrainOnJoin ==
    cpc = "joined" =>
        /\ wpc = "terminated"
        /\ queue = <<>>
        /\ Attempted = Accepted
C2_Witness == cpc = "joined" /\ Len(written) >= 2

\* C4: a send issued while the worker is running (waiting in recv or in a
\* write) returns Ok and appends exactly that item to the queue, and a send
\* that returns Err was issued with the worker terminated.
C4_SendOkWhileRunning ==
    [][Len(sendLog') = Len(sendLog) + 1 =>
        LET r == sendLog'[Len(sendLog')] IN
        /\ wpc \in {"recv", "write"} => (r.ok /\ queue' = Append(queue, r.item))
        /\ ~r.ok => wpc = "terminated"]_vars
C4_Witness ==
    \E i \in 1..Len(sendLog) :
        /\ sendLog[i].at = "write"
        /\ sendLog[i].ok
        /\ sendLog[i].item # None
        /\ queue # <<>> /\ queue[Len(queue)] = sendLog[i].item

\* C5: a write that returned an error leaves the worker in its loop (its
\* next position is the receive), and every message that is in the queue is
\* eventually handed to write_one, whatever the results of earlier writes.
C5_FailedWriteDoesNotBlock ==
    /\ [][wpc = "write" => wpc' \in {"write", "recv"}]_vars
    /\ \A m \in 1..MaxMsgs : InSeq(Some(Msg(m)), queue) ~> InSeq(Msg(m), Attempted)
C5_Witness ==
    \E i \in 1..Len(written) : \E j \in 1..Len(written) :
        i < j /\ ~written[i].ok /\ written[j].m.time > written[i].m.time

\* C6: the worker leaves its loop only with the shutdown signal in hand, and
\* when the handle was dropped without join (recv returns Err) the worker
\* is never past its loop.
C6_OnlyShutdownTerminates ==
    /\ wpc \in {"draining", "terminated"} => msg = None
    /\ cpc = "dropped" => wpc \notin {"draining", "terminated"}
C6_Witness == cpc = "dropped" /\ recvErrs >= 2 /\ wpc = "recv"

\* C7: once join has enqueued the shutdown signal the worker eventually
\* dequeues it and terminates, and join eventually returns.
C7_ShutdownLiveness ==
    /\ (cpc = "joining") ~> (wpc = "terminated" /\ msg = None)
    /\ (cpc = "joining") ~> (cpc = "joined")
C7_Witness == cpc = "joined" /\ wpc = "terminated" /\ msg = None

\* C9: the worker's position only moves along Created -> Running ->
\* (Writing -> Running)* -> Draining -> Terminated; Terminated is never
\* left, and no write call is issued once the loop has been left.
WriterTransitions ==
    { <<"created", "recv">>, <<"recv", "write">>, <<"write", "recv">>,
      <<"recv", "draining">>, <<"draining", "terminated">> }
C9_WriterStateMachine ==
    [][/\ wpc' # wpc => <<wpc, wpc'>> \in WriterTransitions
       /\ wpc = "terminated" => wpc' = "terminated"
       /\ wpc \in {"draining", "terminated"} => written' = written]_vars
C9_Witness == wpc = "terminated" /\ Len(written) >= 2 /\ cpc = "joined"

\* The tokens of the header line, when the source has a readable one.
HasHeader == Len(lines) > first_row /\ ~lines[first_row + 1].err
HeaderTokens == split(lines[first_row + 1].s)
Occurs(name, toks) == \E i \in 1..Len(toks) : toks[i] = name
\* The 0-based index of the first token equal to name.
FirstIndex(name, toks) ==
    CHOOSE i \in 0..(Len(toks) - 1) :
        /\ toks[i + 1] = name
        /\ \A j \in 1..i : toks[j] # name

\* C10: when the header contains both the measure and the time name,
\* Csv::read_header and Layout::apply succeed and return, for each of the two
\* names, the index of its first occurrence among the header tokens.
C10_FirstOccurrence ==
    (/\ HasHeader
     /\ Occurs(layout.measure, HeaderTokens)
     /\ Occurs(layout.time, HeaderTokens)) =>
        /\ hres # Pending =>
            /\ hres.ok
            /\ hres.val.measure = FirstIndex(layout.measure, HeaderTokens)
            /\ hres.val.time = FirstIndex(layout.time, HeaderTokens)
        /\ ares # Pending =>
            /\ ares.ok
            /\ ares.val.measure = FirstIndex(layout.measure, HeaderTokens)
            /\ ares.val.time = FirstIndex(layout.time, HeaderTokens)
C10_Witness ==
    /\ hres.ok /\ ares.ok
    /\ first_row = 1
    /\ \E i, j \in 1..Len(HeaderTokens) :
        /\ i < j
        /\ HeaderTokens[i] = layout.measure
        /\ HeaderTokens[j] = layout.measure
        /\ hres.val.measure = i - 1
        /\ ares.val.measure = i - 1
        /\ hres.val.time > i - 1

\* C11: when the header lacks the measure name, resolution fails with
\* NotFound naming the measure (Layout::apply: "Value"); when it has the
\* measure name but lacks the time name, with NotFound naming the time
\* column (Layout::apply: "Timestamp"); indices are returned only when both
\* names are in the header.
C11_ResolutionFailure ==
    HasHeader =>
        /\ hres # Pending =>
            /\ ~Occurs(layout.measure, HeaderTokens) => hres = NotFound(layout.measure)
            /\ (Occurs(layout.measure, HeaderTokens) /\ ~Occurs(layout.time, HeaderTokens))
                   => hres = NotFound(layout.time)
            /\ hres.ok => (Occurs(layout.measure, HeaderTokens)
                           /\ Occurs(layout.time, HeaderTokens))
        /\ ares # Pending =>
            /\ ~Occurs(layout.measure, HeaderTokens) => ares = NotFound("Value")
            /\ (Occurs(layout.measure, HeaderTokens) /\ ~Occurs(layout.time, HeaderTokens))
                   => ares = NotFound("Timestamp")
            /\ ares.ok => (Occurs(layout.measure, HeaderTokens)
                           /\ Occurs(layout.time, HeaderTokens))
C11_Witness ==
    /\ HasHeader
    /\ Len(HeaderTokens) >= 2
    /\ ~Occurs(layout.measure, HeaderTokens)
    /\ ~Occurs(layout.time, HeaderTokens)
    /\ hres # Pending /\ hres = NotFound(layout.measure)
    /\ ares # Pending /\ ares = NotFound("Value")

\* The tag names that are in the header, in the order of the tag list, and
\* the 0-based index of the first occurrence of each.
PresentTags(tags, toks) == SelectSeq(tags, LAMBDA t : Occurs(t, toks))
TagIndices(tags, toks) ==
    [k \in 1..Len(PresentTags(tags, toks)) |-> FirstIndex(PresentTags(tags, toks)[k], toks)]

\* C12: the resolved tag indices are, in the order of the tag list, exactly
\* the first-occurrence header index of each tag name that is in the header;
\* absent names are left out without an error, so the sequence is never
\* longer than the tag list.
C12_TagResolution ==
    /\ hres.ok =>
        /\ hres.val.tags = TagIndices(layout.tags, HeaderTokens)
        /\ Len(hres.val.tags) <= Len(layout.tags)
    /\ ares.ok =>
        /\ ares.val.tags = TagIndices(layout.tags, HeaderTokens)
        /\ Len(ares.val.tags) <= Len(layout.tags)
C12_Witness ==
    /\ hres.ok /\ ares.ok
    /\ Len(layout.tags) = 2
    /\ ~Occurs(layout.tags[1], HeaderTokens)
    /\ Occurs(layout.tags[2], HeaderTokens)
    /\ hres.val.tags = <<FirstIndex(layout.tags[2], HeaderTokens)>>
    /\ hres.val.tags[1] > 0
    /\ ares.val.tags = hres.val.tags

\* The i-th client.send call of Csv::import: the message it was given, and
\* the tokens of the row and of the header of the file it was made for.
SentMsg(i) == sendLog[i].item.val
RowOf(i) == split(files[origin[i].file].lines[origin[i].row].s)
HeaderOf(i) == split(files[origin[i].file].lines[first_row + 1].s)

\* C13: every tag of a message that Csv::import built from a row has the
\* name of a tag column of the header and the row's token in that column
\* (the first column of that name), also when earlier tag names of the
\* layout are not in the header.
C13_TagPairing ==
    \A i \in 1..Len(origin) : \A k \in 1..Len(SentMsg(i).tags) :
        LET name == SentMsg(i).tags[k][1]
            value == SentMsg(i).tags[k][2]
        IN /\ Occurs(name, HeaderOf(i))
           /\ FirstIndex(name, HeaderOf(i)) < Len(RowOf(i))
           /\ RowOf(i)[FirstIndex(name, HeaderOf(i)) + 1] = value

\* C14: Csv::import never ends at a source that could not be opened while
\* later sources have not been attempted.
C14_OpenFailureContained ==
    ~(/\ ipc = "err"
      /\ fi < Len(files)
      /\ ~files[fi].open)

\* C15: Csv::import never ends at a data row: neither with a panic (a row
\* with too few tokens) nor with an error (a line that cannot be read).
C15_MalformedRowSkipped ==
    /\ ipc # "panic"
    /\ ~(ipc = "err" /\ fi <= Len(files) /\ files[fi].open)

\* A source whose header does not resolve: no line is left after first_row
\* lines, or the header line lacks the measure or the time name.
HeaderFails(f) ==
    /\ files[f].open
    /\ \/ Len(files[f].lines) <= first_row
       \/ /\ ~files[f].lines[first_row + 1].err
          /\ LET toks == split(files[f].lines[first_row + 1].s) IN
             ~Occurs(layout.measure, toks) \/ ~Occurs(layout.time, toks)

\* C16: no message is sent for a source whose header does not resolve, and
\* from such a source Csv::import goes on to the next source without
\* sending anything.
C16_HeaderFailureContained ==
    /\ [](\A f \in 1..Len(files) : HeaderFails(f) =>
            \A i \in 1..Len(origin) : origin[i].file # f)
    /\ [][(/\ ipc = "files"
           /\ fi <= Len(files)
           /\ HeaderFails(fi)
           /\ <<ipc, fi>>' # <<ipc, fi>>)
          => (ipc' = "files" /\ fi' = fi + 1 /\ sendLog' = sendLog)]_vars
C16_Witness ==
    /\ Len(files) = 2
    /\ HeaderFails(1)
    /\ Len(files[1].lines) > first_row
    /\ \E i \in 1..Len(origin) : origin[i].file = 2

\* The time token of the row the legacy convert is at, if the row has one.
RowTimeToken ==
    LET toks == split(lines[ri].s) IN
    IF ares.val.time < Len(toks) THEN Some(toks[ares.val.time + 1]) ELSE None

\* C17: a row whose time field does not parse is passed without a message
\* being sent for it (CsvLayout::convert).
C17_UnparsableTimeDropsRow ==
    [][(/\ mpc = "rows"
        /\ ri <= Len(lines)
        /\ ~lines[ri].err
        /\ RowTimeToken # None
        /\ datetime_from_str(RowTimeToken.val) = None
        /\ ri' = ri + 1)
       => sendLog' = sendLog]_vars

\* C18: Csv::import goes through the files in the order given and never
\* back, through the rows of a file in file order, its send calls are made
\* in the order (file, row), and the queue holds the items in call order.
C18_CrossFileOrder ==
    /\ [](\A i, j \in 1..Len(origin) : i < j =>
            \/ origin[i].file < origin[j].file
            \/ origin[i].file = origin[j].file /\ origin[i].row < origin[j].row)
    /\ [](/\ Len(queue) <= Len(sendLog)
          /\ \A k \in 1..Len(queue) :
                queue[k] = sendLog[Len(sendLog) - Len(queue) + k].item)
    /\ [][/\ fi' >= fi
          /\ (fi' = fi /\ ipc = "rows" /\ ipc' = "rows") => ri' >= ri]_vars
C18_Witness ==
    /\ Len(origin) >= 3
    /\ origin[1].file = 1 /\ origin[2].file = 1
    /\ origin[1].row < origin[2].row
    /\ origin[3].file = 2

\* C19: every message a mapper hands to the writer has the layout's measure
\* name as value.0 and at most as many tags as the layout has tag names.
C19_MessageInvariant ==
    \A i \in 1..Len(sendLog) : sendLog[i].item # None =>
        /\ SentMsg(i).value[1] = layout.measure
        /\ Len(SentMsg(i).tags) <= Len(layout.tags)
C19_Witness ==
    /\ ipc = "prompt"
    /\ Len(sendLog) >= 2
    /\ Len(SentMsg(1).tags) = 2
    /\ Len(SentMsg(2).tags) = 1
    /\ Len(layout.tags) = 2

\* C20: the record written for a row's message has the single field
\* (layout.measure, the row's token in the measure column) and the message's
\* tag pairs in the same order; its timestamp is the message's time in
\* nanoseconds.
C20_RowToRecord ==
    \A k \in 1..Len(written) : k <= Len(origin) =>
        /\ written[k].m = SentMsg(k)
        /\ written[k].rec.fields =
              << <<layout.measure,
                   RowOf(k)[FirstIndex(layout.measure, HeaderOf(k)) + 1]>> >>
        /\ written[k].rec.tags = SentMsg(k).tags
        /\ written[k].rec.timestamp = [neg |-> FALSE, mag |-> <<0, SentMsg(k).time, 0>>]
C20_Witness ==
    /\ Len(written) >= 1
    /\ Len(origin) >= 1
    /\ Len(written[1].rec.tags) = 2
    /\ written[1].rec.tags[1][1] # written[1].rec.tags[2][1]
    /\ written[1].rec.fields[1][2] = <<"5">>

\* C21: once a prompt read of Interactive::import has found the input at
\* its end, import has returned Ok.
C21_EndOfInputReturnsOk ==
    eofTurns > 0 => ipc = "ok"

\* The messages that are in the queue.
QueuedMessages == Cardinality({k \in 1..Len(queue) : queue[k] # None})

\* C22: the worker issues exactly one write call for each message it
\* dequeues: the write calls are as many as the accepted messages that have
\* left the queue (less the one dequeued and about to be written), every
\* write call is for the message in hand and is followed by the next
\* receive, whatever its result, and write calls are issued nowhere else.
C22_OneWritePerMessage ==
    /\ [](Len(written) + (IF wpc = "write" THEN 1 ELSE 0)
             = Len(Accepted) - QueuedMessages)
    /\ [][written' # written =>
            /\ wpc = "write"
            /\ wpc' = "recv"
            /\ Len(written') = Len(written) + 1
            /\ SubSeq(written', 1, Len(written)) = written
            /\ written'[Len(written')].m = msg.val]_vars
C22_Witness ==
    /\ Len(written) = 3
    /\ ~written[1].ok
    /\ written[2].ok
    /\ ~written[3].ok
    /\ wpc = "recv"
    /\ queue = <<>>

\* C23: at most one shutdown signal is ever enqueued on the writer's
\* channel, and no message is sent once a shutdown signal has been sent.
C23_OneShutdownSignal ==
    /\ Cardinality({i \in 1..Len(sendLog) :
                        sendLog[i].item = None /\ sendLog[i].ok}) <= 1
    /\ \A i, j \in 1..Len(sendLog) :
          (i < j /\ sendLog[i].item = None) => sendLog[j].item = None

\* C24: with first_row = k the header is line k (from 0) of the source and
\* the columns are resolved against its tokens; the row loop starts at line
\* k + 1 of the same source and goes through the lines one by one to the
\* end; no message is sent for a skipped line or for the header line.
C24_HeaderAndRowsLineUp ==
    /\ [](ipc = "rows" =>
            /\ lines = files[fi].lines
            /\ HasHeader
            /\ hres.ok
            /\ hres.val.measure = FirstIndex(layout.measure, HeaderTokens)
            /\ hres.val.time = FirstIndex(layout.time, HeaderTokens)
            /\ ri >= first_row + 2)
    /\ [](\A i \in 1..Len(origin) :
            /\ origin[i].row >= first_row + 2
            /\ origin[i].row <= Len(files[origin[i].file].lines))
    /\ [][/\ (ipc = "files" /\ ipc' = "rows") => ri' = first_row + 2
          /\ (ipc = "rows" /\ ipc' = "rows" /\ ri' # ri) => ri' = ri + 1
          /\ (ipc = "rows" /\ ipc' = "files") => ri = Len(lines) + 1]_vars
C24_Witness ==
    /\ first_row = 1
    /\ ipc = "ok"
    /\ Len(origin) = 1
    /\ origin[1].row = 3
    /\ SentMsg(1).value[2] = <<"8">>
    /\ SentMsg(1).time = 4

\* C25: the timestamp handed to the record is the message's time in
\* seconds times 1,000,000,000, as an i64: the multiplication neither
\* panics on overflow nor wraps.
C25_NanosIsSecondsTimesBillion ==
    tpc \in {"set", "panic"} =>
        /\ tpc = "set"
        /\ nanos = [neg |-> FALSE, mag |-> MulBillion(secs)]

\* The non-empty tag names of the layout, in order.
NonEmptyNames == SelectSeq(layout.tags, LAMBDA e : e # <<>>)
\* The comma-separated values of the tags line of the entry at the head of
\* the input; a line that is missing at the end of the input reads as the
\* empty line, and the empty line is one empty value.
TypedValues == IF Len(stdin) >= 3 THEN split(trim(stdin[3].s)) ELSE << <<>> >>
\* The send call a step has made.
LastSent == sendLog'[Len(sendLog')].item.val

\* C26: the message Interactive::import sends for an entry pairs the i-th
\* typed value with the i-th non-empty tag name; its tag list is as long as
\* the shorter of the two, whatever is left over on either side is dropped,
\* and the entry is sent all the same.
C26_InteractiveTagPairing ==
    [][(ipc = "prompt" /\ Len(sendLog') = Len(sendLog) + 1) =>
          /\ Len(LastSent.tags) =
                 (IF Len(NonEmptyNames) < Len(TypedValues)
                  THEN Len(NonEmptyNames) ELSE Len(TypedValues))
          /\ \A k \in 1..Len(LastSent.tags) :
                 LastSent.tags[k] = <<NonEmptyNames[k], TypedValues[k]>>]_vars
C26_Witness ==
    /\ ipc = "prompt"
    /\ layout.tags = << <<>>, <<"a">> >>
    /\ Len(sendLog) = 2
    /\ SentMsg(1).tags = << << <<"a">>, <<"7">> >> >>
    /\ SentMsg(2).tags = << << <<"a">>, <<>> >> >>

\* The entry at the head of the input, as read_input returns it.
Entry == read_input(stdin)

\* C27: a turn of Interactive::import that has read an entry whose time
\* does not parse sends nothing and goes on to the next prompt; a turn that
\* has read an entry whose time parses makes exactly one send call, with
\* that time.
C27_UnparsedEntryIsDiscarded ==
    [][(ipc = "prompt" /\ <<stdin, eofTurns>>' # <<stdin, eofTurns>> /\ Entry.ok) =>
          /\ ipc' = "prompt"
          /\ stdin' = Entry.rest
          /\ IF datetime_from_str(Entry.time) = None
             THEN sendLog' = sendLog /\ queue' = queue
             ELSE /\ Len(sendLog') = Len(sendLog) + 1
                  /\ SubSeq(sendLog', 1, Len(sendLog)) = sendLog
                  /\ LastSent.time = datetime_from_str(Entry.time).val
                  /\ LastSent.value[2] = Entry.measure]_vars
C27_Witness ==
    /\ ipc = "prompt"
    /\ Len(sendLog) = 1
    /\ SentMsg(1).time = 1
    /\ Len(stdin) = 3
    /\ datetime_from_str(Entry.time) = None
    /\ ENABLED InteractiveTurn

\* The token of the row at hand in the measure column, if the row has one.
RowMeasureToken ==
    LET toks == split(lines[ri].s) IN
    IF ares.val.measure < Len(toks) THEN Some(toks[ares.val.measure + 1]) ELSE None

\* C28: CsvLayout::convert, once the header has resolved, makes one send of
\* Some(message) for each row it could read, in row order, the message
\* carrying the row's token in the measure column and the timestamp parsed
\* from the row's token in the time column; it sends nothing for a row it
\* could not read, and after the last row it sends None once and returns.
C28_ConvertOutputSequence ==
    [][/\ (mpc = "rows" /\ ri' = ri + 1 /\ lines[ri].err) => sendLog' = sendLog
       /\ (mpc = "rows" /\ ri' = ri + 1 /\ ~lines[ri].err) =>
             /\ Len(sendLog') = Len(sendLog) + 1
             /\ SubSeq(sendLog', 1, Len(sendLog)) = sendLog
             /\ sendLog'[Len(sendLog')].item # None
             /\ RowMeasureToken # None
             /\ LastSent.value = <<layout.measure, RowMeasureToken.val>>
             /\ RowTimeToken # None
             /\ datetime_from_str(RowTimeToken.val) # None
             /\ LastSent.time = datetime_from_str(RowTimeToken.val).val
       /\ (mpc = "rows" /\ mpc' = "files") =>
             /\ ri = Len(lines) + 1
             /\ Len(sendLog') = Len(sendLog) + 1
             /\ sendLog'[Len(sendLog')].item = None]_vars

\* C29: whenever main is at assert!(tx.send(None).is_ok()) the receiver of
\* the channel still exists, so the send returns Ok and main does not
\* panic, whatever the earlier files were and however far the worker is.
C29_AssertHolds ==
    /\ mpc = "assert" => RxAlive
    /\ mpc # "panic"

\* C30: once the loop over the files is over, main is never stuck at
\* h.join(): the worker can take a step, or it has exited and the join
\* returns.
C30_JoinNeverBlocks ==
    (mpc = "files" /\ fi > Len(files)) => ENABLED (MainWorker \/ MainJoin)

\* C3: every send of a message issued after the shutdown signal has been
\* enqueued returns an error to the sender, so that no message enqueued
\* behind the shutdown signal is accepted (Ok) and then never written.
C3_SendAfterShutdownFails ==
    /\ \A i \in 1..Len(sendLog) :
        (sendLog[i].afterShutdown /\ sendLog[i].item # None) => ~sendLog[i].ok
    /\ mpc = "exit" => Attempted = Accepted

\* C8 as claimed: after the first join has returned Ok the handle can be
\* joined a second time, and that call returns a SendError without blocking.
C8_SecondJoinReturnsSendError ==
    cpc = "joined" => ENABLED (JoinSend /\ cpc' = "joinErr")

\* C8 as amended: join takes the handle by value, so once join has been
\* called nothing more is sent on the channel (no send after join, no
\* second join), and at most one join call is ever made.
JoinCalls == Cardinality({i \in 1..Len(sendLog) : sendLog[i].item = None})
C8_JoinConsumesHandle ==
    /\ [][cpc # "active" => sendLog' = sendLog]_vars
    /\ [](JoinCalls <= 1)
C8_Witness == cpc = "joined" /\ JoinCalls = 1 /\ Len(sendLog) >= 2

====
